---- MODULE Spec2Model ----
(***************************************************************************)
(* TurtleHerder (concert_service_turtlesim/scripts/turtle_herder.py).      *)
(*                                                                         *)
(* The node relays "spawn" and "kill" service-pair requests to the         *)
(* turtlesim backend.  Every request is handled by its own worker thread   *)
(* (ServicePairServer(..., use_threads=True)); the handlers               *)
(* _spawn_turtle_service and _kill_turtle_service are modelled statement   *)
(* by statement, one action per statement that reads or writes shared      *)
(* state or blocks.  The random pose drawn for a spawn (lines 128-130) is  *)
(* passed to the backend and never stored, so it is not part of the state. *)
(***************************************************************************)
EXTENDS Integers, Sequences, FiniteSets, TLC

\* Number of spawn requests and of kill requests delivered in a behaviour.
MaxSpawn == 3
MaxKill == 2

\* Request identifiers: one per delivered request, one worker thread each.
SpawnReqs == 1..MaxSpawn
KillReqs == (MaxSpawn + 1)..(MaxSpawn + MaxKill)
Reqs == SpawnReqs \cup KillReqs

\* msg.name of the requests.  "x_0" is both a requestable name and the first
\* disambiguation of "x".
SpawnNames == {"x", "x_0"}
KillNames == {"x", "x_0"}

\* No thread holds the lock.
Free == 0

VARIABLES
    turtles,          \* self.turtles: list of names
    spawn_lock,       \* self._spawn_lock: Free or the request holding it
    kill_lock,        \* self._kill_lock: Free or the request holding it
    pc,               \* position of each request's worker thread
    msg_name,         \* msg.name of each delivered request
    name,             \* spawn handler local: name
    name_extension,   \* spawn handler local: name_extension
    count,            \* spawn handler local: count
    outcome,          \* how the request's backend call ended
    replies,          \* per request id, the responses sent with that id
    flip_calls,       \* per handler, the gateway flip requests it issued
    interrupted,      \* rospy shutdown has been signalled
    backend,          \* names created by this node's create calls and not
                      \* destroyed since by one of its destroy calls
    sd_pc,            \* position of the main thread in shutdown()
    sd_index,         \* shutdown(): index of the list iterator of the for loop
    sd_calls,         \* shutdown(): names the destroy call was issued for
    sd_start          \* self.turtles as it was when shutdown() began

\* The state of shutdown().
sd_vars == <<sd_pc, sd_index, sd_calls, sd_start>>

vars == <<turtles, spawn_lock, kill_lock, pc, msg_name, name, name_extension,
          count, outcome, replies, flip_calls, interrupted, backend, sd_vars>>

Range(s) == {s[i] : i \in 1..Len(s)}

\* `x in self.turtles`
Contains(list, x) == x \in Range(list)

\* Mutant of Extension: the counter is written after it is incremented.
Extension_FromOne(c) == "_" \o ToString(c + 1)

\* '_' + str(count)
Extension(c) == "_" \o ToString(c)

\* list.remove(x) for x in the list: drops the first occurrence.
RECURSIVE Remove(_, _)
Remove(list, x) ==
    IF list = <<>> THEN <<>>
    ELSE IF Head(list) = x THEN Tail(list)
    ELSE <<Head(list)>> \o Remove(Tail(list), x)

\* The two rules of one flip request name the same turtle; the request is
\* recorded by that name and its cancel flag.
FlipRequest(n, cancel) == [name |-> n, cancel |-> cancel]

Init ==
    /\ turtles = <<>>
    /\ spawn_lock = Free
    /\ kill_lock = Free
    /\ pc = [r \in Reqs |-> "idle"]
    /\ msg_name = [r \in Reqs |-> ""]
    /\ name = [r \in SpawnReqs |-> ""]
    /\ name_extension = [r \in SpawnReqs |-> ""]
    /\ count = [r \in SpawnReqs |-> 0]
    /\ outcome = [r \in Reqs |-> "none"]
    /\ replies = [r \in Reqs |-> <<>>]
    /\ flip_calls = [r \in Reqs |-> <<>>]
    /\ interrupted = FALSE
    /\ backend = {}
    /\ sd_pc = "idle"
    /\ sd_index = 0
    /\ sd_calls = <<>>
    /\ sd_start = <<>>

----------------------------------------------------------------------------
\* Delivery of a request: the pair server starts a worker thread on the
\* handler with the request id and the message.  Request ids are labels the
\* handlers only echo, so they are numbered in the order of delivery.

DeliverSpawn(r) ==
    /\ pc[r] = "idle"
    /\ \A q \in SpawnReqs : q < r => pc[q] # "idle"
    /\ \E n \in SpawnNames : msg_name' = [msg_name EXCEPT ![r] = n]
    /\ pc' = [pc EXCEPT ![r] = "acquire"]
    /\ UNCHANGED <<backend, sd_vars>>
    /\ UNCHANGED <<turtles, spawn_lock, kill_lock, name, name_extension, count,
                   outcome, replies, flip_calls, interrupted>>

DeliverKill(r) ==
    /\ pc[r] = "idle"
    /\ \A q \in KillReqs : q < r => pc[q] # "idle"
    /\ \E n \in KillNames : msg_name' = [msg_name EXCEPT ![r] = n]
    /\ pc' = [pc EXCEPT ![r] = "acquire"]
    /\ UNCHANGED <<backend, sd_vars>>
    /\ UNCHANGED <<turtles, spawn_lock, kill_lock, name, name_extension, count,
                   outcome, replies, flip_calls, interrupted>>

----------------------------------------------------------------------------
\* _spawn_turtle_service

\* Mutant of SpawnAcquire: the handler does not wait for the spawn lock.
SpawnAcquire_NoLock(r) ==
    /\ pc[r] = "acquire"
    /\ spawn_lock' = r
    /\ name' = [name EXCEPT ![r] = msg_name[r]]
    /\ name_extension' = [name_extension EXCEPT ![r] = ""]
    /\ count' = [count EXCEPT ![r] = 0]
    /\ pc' = [pc EXCEPT ![r] = "loop"]
    /\ UNCHANGED <<backend, sd_vars>>
    /\ UNCHANGED <<turtles, kill_lock, msg_name, outcome, replies, flip_calls,
                   interrupted>>

\* self._spawn_lock.acquire(); name = msg.name; name_extension = ''; count = 0
SpawnAcquire(r) ==
    /\ pc[r] = "acquire"
    /\ spawn_lock = Free
    /\ spawn_lock' = r
    /\ name' = [name EXCEPT ![r] = msg_name[r]]
    /\ name_extension' = [name_extension EXCEPT ![r] = ""]
    /\ count' = [count EXCEPT ![r] = 0]
    /\ pc' = [pc EXCEPT ![r] = "loop"]
    /\ UNCHANGED <<backend, sd_vars>>
    /\ UNCHANGED <<turtles, kill_lock, msg_name, outcome, replies, flip_calls,
                   interrupted>>

\* Mutant of NameTaken: the name is tested once (an `if` for the `while`).
NameTaken_Once(r) ==
    count[r] = 0 /\ Contains(turtles, name[r] \o name_extension[r])

\* The while condition: name + name_extension in self.turtles
NameTaken(r) == Contains(turtles, name[r] \o name_extension[r])

\* One evaluation of the while condition: either one pass of the body, or
\* the exit, name = name + name_extension and the start of the backend call.
SpawnLoop(r) ==
    /\ pc[r] = "loop"
    /\ IF NameTaken(r)
       THEN /\ name_extension' = [name_extension EXCEPT ![r] = Extension(count[r])]
            /\ count' = [count EXCEPT ![r] = count[r] + 1]
            /\ UNCHANGED <<name, pc>>
       ELSE /\ name' = [name EXCEPT ![r] = name[r] \o name_extension[r]]
            /\ pc' = [pc EXCEPT ![r] = "call"]
            /\ UNCHANGED <<name_extension, count>>
    /\ UNCHANGED <<backend, sd_vars>>
    /\ UNCHANGED <<turtles, spawn_lock, kill_lock, msg_name, outcome, replies,
                   flip_calls, interrupted>>

\* The backend create call returned normally.
SpawnCallOk(r) ==
    /\ pc[r] = "call"
    /\ outcome' = [outcome EXCEPT ![r] = "ok"]
    /\ backend' = backend \cup {name[r]}
    /\ pc' = [pc EXCEPT ![r] = "append"]
    /\ UNCHANGED sd_vars
    /\ UNCHANGED <<turtles, spawn_lock, kill_lock, msg_name, name,
                   name_extension, count, replies, flip_calls, interrupted>>

\* self.turtles.append(name)
SpawnAppend(r) ==
    /\ pc[r] = "append"
    /\ turtles' = Append(turtles, name[r])
    /\ pc' = [pc EXCEPT ![r] = "reply"]
    /\ UNCHANGED <<backend, sd_vars>>
    /\ UNCHANGED <<spawn_lock, kill_lock, msg_name, name, name_extension,
                   count, outcome, replies, flip_calls, interrupted>>

\* Mutant of SpawnCallFail: the name is registered although the create call
\* failed (the append placed ahead of the call).
SpawnCallFail_Appends(r) ==
    /\ pc[r] = "call"
    /\ outcome' = [outcome EXCEPT ![r] = "fail"]
    /\ turtles' = Append(turtles, name[r])
    /\ name' = [name EXCEPT ![r] = ""]
    /\ pc' = [pc EXCEPT ![r] = "reply"]
    /\ UNCHANGED <<backend, sd_vars>>
    /\ UNCHANGED <<spawn_lock, kill_lock, msg_name, name_extension,
                   count, replies, flip_calls, interrupted>>

\* except rospy.ServiceException: name = ''
SpawnCallFail(r) ==
    /\ pc[r] = "call"
    /\ outcome' = [outcome EXCEPT ![r] = "fail"]
    /\ name' = [name EXCEPT ![r] = ""]
    /\ pc' = [pc EXCEPT ![r] = "reply"]
    /\ UNCHANGED <<backend, sd_vars>>
    /\ UNCHANGED <<turtles, spawn_lock, kill_lock, msg_name, name_extension,
                   count, replies, flip_calls, interrupted>>

\* Mutant of SpawnCallInterrupt: the except branch releases the lock but does
\* not return, so the handler goes on to the reply.
SpawnCallInterrupt_Replies(r) ==
    /\ pc[r] = "call"
    /\ interrupted
    /\ outcome' = [outcome EXCEPT ![r] = "interrupt"]
    /\ spawn_lock' = Free
    /\ pc' = [pc EXCEPT ![r] = "reply"]
    /\ UNCHANGED <<backend, sd_vars>>
    /\ UNCHANGED <<turtles, kill_lock, msg_name, name, name_extension, count,
                   replies, flip_calls, interrupted>>

\* except rospy.ROSInterruptException: release the lock and return.
SpawnCallInterrupt(r) ==
    /\ pc[r] = "call"
    /\ interrupted
    /\ outcome' = [outcome EXCEPT ![r] = "interrupt"]
    /\ spawn_lock' = Free
    /\ pc' = [pc EXCEPT ![r] = "done"]
    /\ name' = [name EXCEPT ![r] = ""]
    /\ name_extension' = [name_extension EXCEPT ![r] = ""]
    /\ count' = [count EXCEPT ![r] = 0]
    /\ UNCHANGED <<backend, sd_vars>>
    /\ UNCHANGED <<turtles, kill_lock, msg_name, replies, flip_calls,
                   interrupted>>

\* Mutant of SpawnReply: the lock is released with the reply, ahead of the
\* flip request.
SpawnReply_Releases(r) ==
    /\ pc[r] = "reply"
    /\ replies' = [replies EXCEPT ![r] = Append(@, name[r])]
    /\ spawn_lock' = Free
    /\ pc' = [pc EXCEPT ![r] = "flip"]
    /\ UNCHANGED <<backend, sd_vars>>
    /\ UNCHANGED <<turtles, kill_lock, msg_name, name,
                   name_extension, count, outcome, flip_calls, interrupted>>

\* response.name = name; self._spawn_turtle_service_pair_server.reply(request_id, response)
SpawnReply(r) ==
    /\ pc[r] = "reply"
    /\ replies' = [replies EXCEPT ![r] = Append(@, name[r])]
    /\ pc' = [pc EXCEPT ![r] = "flip"]
    /\ UNCHANGED <<backend, sd_vars>>
    /\ UNCHANGED <<turtles, spawn_lock, kill_lock, msg_name, name,
                   name_extension, count, outcome, flip_calls, interrupted>>

\* Mutant of SpawnFlip: the rules are flipped for the requested name, not for
\* the disambiguated one.
SpawnFlip_Requested(r) ==
    /\ pc[r] = "flip"
    /\ flip_calls' = [flip_calls EXCEPT ![r] = Append(@, FlipRequest(msg_name[r], FALSE))]
    /\ pc' = [pc EXCEPT ![r] = "flipwait"]
    /\ UNCHANGED <<backend, sd_vars>>
    /\ UNCHANGED <<turtles, spawn_lock, kill_lock, msg_name, name,
                   name_extension, count, outcome, replies, interrupted>>

\* self._send_flip_rules_request(name=name, cancel=False): the call is issued.
SpawnFlip(r) ==
    /\ pc[r] = "flip"
    /\ flip_calls' = [flip_calls EXCEPT ![r] = Append(@, FlipRequest(name[r], FALSE))]
    /\ pc' = [pc EXCEPT ![r] = "flipwait"]
    /\ UNCHANGED <<backend, sd_vars>>
    /\ UNCHANGED <<turtles, spawn_lock, kill_lock, msg_name, name,
                   name_extension, count, outcome, replies, interrupted>>

\* self._spawn_lock.release() and the return: the handler's locals are gone.
SpawnRelease(r) ==
    /\ pc[r] = "release"
    /\ spawn_lock' = Free
    /\ pc' = [pc EXCEPT ![r] = "done"]
    /\ name' = [name EXCEPT ![r] = ""]
    /\ name_extension' = [name_extension EXCEPT ![r] = ""]
    /\ count' = [count EXCEPT ![r] = 0]
    /\ UNCHANGED <<backend, sd_vars>>
    /\ UNCHANGED <<turtles, kill_lock, msg_name, outcome, replies, flip_calls,
                   interrupted>>

----------------------------------------------------------------------------
\* _send_flip_rules_request: the gateway call returns, raises ServiceException
\* or (after shutdown) ROSInterruptException; each is caught and the function
\* returns to the handler.
FlipOutcomes == IF interrupted THEN {"ok", "error", "interrupt"} ELSE {"ok", "error"}

\* Mutant of FlipReturn: an exception of the gateway call is not caught and
\* ends the handler before it releases its lock.
FlipReturn_ErrorEnds(r) ==
    /\ pc[r] = "flipwait"
    /\ \E o \in FlipOutcomes :
          pc' = [pc EXCEPT ![r] = IF o = "ok" THEN "release" ELSE "raised"]
    /\ UNCHANGED <<backend, sd_vars>>
    /\ UNCHANGED <<turtles, spawn_lock, kill_lock, msg_name, name,
                   name_extension, count, outcome, replies, flip_calls,
                   interrupted>>

FlipReturn(r) ==
    /\ pc[r] = "flipwait"
    /\ \E o \in FlipOutcomes : pc' = [pc EXCEPT ![r] = "release"]
    /\ UNCHANGED <<backend, sd_vars>>
    /\ UNCHANGED <<turtles, spawn_lock, kill_lock, msg_name, name,
                   name_extension, count, outcome, replies, flip_calls,
                   interrupted>>

----------------------------------------------------------------------------
\* _kill_turtle_service

\* Mutant of KillAcquire: the handler does not wait for the kill lock.
KillAcquire_NoLock(r) ==
    /\ pc[r] = "acquire"
    /\ kill_lock' = r
    /\ pc' = [pc EXCEPT ![r] = "call"]
    /\ UNCHANGED <<backend, sd_vars>>
    /\ UNCHANGED <<turtles, spawn_lock, msg_name, name, name_extension, count,
                   outcome, replies, flip_calls, interrupted>>

\* self._kill_lock.acquire(); the backend destroy call starts.
KillAcquire(r) ==
    /\ pc[r] = "acquire"
    /\ kill_lock = Free
    /\ kill_lock' = r
    /\ pc' = [pc EXCEPT ![r] = "call"]
    /\ UNCHANGED <<backend, sd_vars>>
    /\ UNCHANGED <<turtles, spawn_lock, msg_name, name, name_extension, count,
                   outcome, replies, flip_calls, interrupted>>

\* The backend destroy call returned normally.
KillCallOk(r) ==
    /\ pc[r] = "call"
    /\ outcome' = [outcome EXCEPT ![r] = "ok"]
    /\ backend' = backend \ {msg_name[r]}
    /\ pc' = [pc EXCEPT ![r] = "remove"]
    /\ UNCHANGED sd_vars
    /\ UNCHANGED <<turtles, spawn_lock, kill_lock, msg_name, name,
                   name_extension, count, replies, flip_calls, interrupted>>

\* self.turtles.remove(msg.name).  list.remove raises ValueError when the
\* name is not in the list; no except clause catches it, so the handler
\* ends there, with the lock still held and nothing after line 99 executed.
KillRemove(r) ==
    /\ pc[r] = "remove"
    /\ IF Contains(turtles, msg_name[r])
       THEN /\ turtles' = Remove(turtles, msg_name[r])
            /\ pc' = [pc EXCEPT ![r] = "reply"]
       ELSE /\ pc' = [pc EXCEPT ![r] = "raised"]
            /\ UNCHANGED turtles
    /\ UNCHANGED <<backend, sd_vars>>
    /\ UNCHANGED <<spawn_lock, kill_lock, msg_name, name, name_extension,
                   count, outcome, replies, flip_calls, interrupted>>

\* Mutant of KillCallFail: the name is dropped from the registry although the
\* destroy call failed (the removal placed ahead of the call).
KillCallFail_Removes(r) ==
    /\ pc[r] = "call"
    /\ outcome' = [outcome EXCEPT ![r] = "fail"]
    /\ turtles' = Remove(turtles, msg_name[r])
    /\ pc' = [pc EXCEPT ![r] = "reply"]
    /\ UNCHANGED <<backend, sd_vars>>
    /\ UNCHANGED <<spawn_lock, kill_lock, msg_name, name, name_extension,
                   count, replies, flip_calls, interrupted>>

\* except rospy.ServiceException: logged, control falls through to line 106.
KillCallFail(r) ==
    /\ pc[r] = "call"
    /\ outcome' = [outcome EXCEPT ![r] = "fail"]
    /\ pc' = [pc EXCEPT ![r] = "reply"]
    /\ UNCHANGED <<backend, sd_vars>>
    /\ UNCHANGED <<turtles, spawn_lock, kill_lock, msg_name, name,
                   name_extension, count, replies, flip_calls, interrupted>>

\* except rospy.ROSInterruptException: release the lock and return.
KillCallInterrupt(r) ==
    /\ pc[r] = "call"
    /\ interrupted
    /\ outcome' = [outcome EXCEPT ![r] = "interrupt"]
    /\ kill_lock' = Free
    /\ pc' = [pc EXCEPT ![r] = "done"]
    /\ UNCHANGED <<backend, sd_vars>>
    /\ UNCHANGED <<turtles, spawn_lock, msg_name, name, name_extension, count,
                   replies, flip_calls, interrupted>>

\* self._kill_turtle_service_pair_server.reply(request_id, response); the
\* KillTurtleResponse is empty.
KillReply(r) ==
    /\ pc[r] = "reply"
    /\ replies' = [replies EXCEPT ![r] = Append(@, "")]
    /\ pc' = [pc EXCEPT ![r] = "flip"]
    /\ UNCHANGED <<backend, sd_vars>>
    /\ UNCHANGED <<turtles, spawn_lock, kill_lock, msg_name, name,
                   name_extension, count, outcome, flip_calls, interrupted>>

\* self._send_flip_rules_request(name=msg.name, cancel=True): the call is issued.
KillFlip(r) ==
    /\ pc[r] = "flip"
    /\ flip_calls' = [flip_calls EXCEPT ![r] = Append(@, FlipRequest(msg_name[r], TRUE))]
    /\ pc' = [pc EXCEPT ![r] = "flipwait"]
    /\ UNCHANGED <<backend, sd_vars>>
    /\ UNCHANGED <<turtles, spawn_lock, kill_lock, msg_name, name,
                   name_extension, count, outcome, replies, interrupted>>

\* self._kill_lock.release()
KillRelease(r) ==
    /\ pc[r] = "release"
    /\ kill_lock' = Free
    /\ pc' = [pc EXCEPT ![r] = "done"]
    /\ UNCHANGED <<backend, sd_vars>>
    /\ UNCHANGED <<turtles, spawn_lock, msg_name, name, name_extension, count,
                   outcome, replies, flip_calls, interrupted>>

----------------------------------------------------------------------------
\* The node is asked to shut down: blocking rospy calls made from now on may
\* raise ROSInterruptException.
Interrupt ==
    /\ ~interrupted
    /\ interrupted' = TRUE
    /\ UNCHANGED <<backend, sd_vars>>
    /\ UNCHANGED <<turtles, spawn_lock, kill_lock, pc, msg_name, name,
                   name_extension, count, outcome, replies, flip_calls>>

SpawnStep(r) ==
    \/ SpawnAcquire(r)
    \/ SpawnLoop(r)
    \/ SpawnCallOk(r)
    \/ SpawnAppend(r)
    \/ SpawnCallFail(r)
    \/ SpawnCallInterrupt(r)
    \/ SpawnReply(r)
    \/ SpawnFlip(r)
    \/ FlipReturn(r)
    \/ SpawnRelease(r)

KillStep(r) ==
    \/ KillAcquire(r)
    \/ KillCallOk(r)
    \/ KillRemove(r)
    \/ KillCallFail(r)
    \/ KillCallInterrupt(r)
    \/ KillReply(r)
    \/ KillFlip(r)
    \/ FlipReturn(r)
    \/ KillRelease(r)

\* The steps of a run in which the spawn requests S and the kill requests K
\* are delivered.
NextOf(S, K) ==
    \/ \E r \in S : DeliverSpawn(r)
    \/ \E r \in K : DeliverKill(r)
    \/ \E r \in S : SpawnStep(r)
    \/ \E r \in K : KillStep(r)
    \/ Interrupt

Next == NextOf(SpawnReqs, KillReqs)

Spec == Init /\ [][Next]_vars

\* The runs checked for progress deliver the first LiveSpawn spawn requests
\* and the first LiveKill kill requests.
LiveSpawn == 2
LiveKill == 2
LiveSpawnReqs == {r \in SpawnReqs : r <= LiveSpawn}
LiveKillReqs == {r \in KillReqs : r <= MaxSpawn + LiveKill}

LiveNext == NextOf(LiveSpawnReqs, LiveKillReqs)

\* A started worker thread that can take a step eventually takes one: the
\* interpreter schedules every runnable thread, and the backend and the
\* gateway answer every call.  Deliveries and the shutdown signal are not
\* obliged to happen.
Fairness ==
    /\ \A r \in SpawnReqs : WF_vars(SpawnStep(r))
    /\ \A r \in KillReqs : WF_vars(KillStep(r))

FairSpec == Init /\ [][LiveNext]_vars /\ Fairness

----------------------------------------------------------------------------
\* shutdown(): run by the main thread once rospy.spin() has returned, that is
\* after the shutdown signal.  It takes neither lock, and the worker threads
\* that were in their handlers go on running beside it.

\* The handler variables, which shutdown() does not touch.
handler_vars == <<spawn_lock, kill_lock, pc, msg_name, name, name_extension,
                  count, outcome, replies, flip_calls, interrupted>>

\* rospy.spin() returns and shutdown() is entered: the for statement creates
\* the iterator of self.turtles, at index 0.
ShutdownBegin ==
    /\ sd_pc = "idle"
    /\ interrupted
    /\ sd_pc' = "iter"
    /\ sd_index' = 0
    /\ sd_start' = turtles
    /\ UNCHANGED <<turtles, backend, sd_calls, handler_vars>>

\* One step of the list iterator: the element at the index of the list as it
\* is now, or the end of the loop when the index is past the end of the list;
\* then the destroy call for that name is issued.
ShutdownIter ==
    /\ sd_pc = "iter"
    /\ IF sd_index < Len(turtles)
       THEN /\ sd_calls' = Append(sd_calls, turtles[sd_index + 1])
            /\ sd_index' = sd_index + 1
            /\ sd_pc' = "call"
       ELSE /\ sd_pc' = "exhausted"
            /\ UNCHANGED <<sd_calls, sd_index>>
    /\ UNCHANGED <<turtles, backend, sd_start, handler_vars>>

\* The destroy call returned normally: next iteration.
ShutdownCallOk ==
    /\ sd_pc = "call"
    /\ backend' = backend \ {sd_calls[Len(sd_calls)]}
    /\ sd_pc' = "iter"
    /\ UNCHANGED <<turtles, sd_index, sd_calls, sd_start, handler_vars>>

\* except rospy.ServiceException: break
ShutdownCallFail ==
    /\ sd_pc = "call"
    /\ sd_pc' = "failed"
    /\ UNCHANGED <<turtles, backend, sd_index, sd_calls, sd_start, handler_vars>>

\* except rospy.ROSInterruptException: break
ShutdownCallInterrupt ==
    /\ sd_pc = "call"
    /\ sd_pc' = "interrupted"
    /\ UNCHANGED <<turtles, backend, sd_index, sd_calls, sd_start, handler_vars>>

ShutdownStep ==
    \/ ShutdownBegin
    \/ ShutdownIter
    \/ ShutdownCallOk
    \/ ShutdownCallFail
    \/ ShutdownCallInterrupt

\* The runs with shutdown() deliver the first SdSpawn spawn requests and the
\* first SdKill kill requests.
SdSpawn == 2
SdKill == 1
SdSpawnReqs == {r \in SpawnReqs : r <= SdSpawn}
SdKillReqs == {r \in KillReqs : r <= MaxSpawn + SdKill}

ShutdownNext ==
    \/ NextOf(SdSpawnReqs, SdKillReqs)
    \/ ShutdownStep

\* Spec is the node while rospy.spin() runs; ShutdownSpec goes on into
\* shutdown().
ShutdownSpec == Init /\ [][ShutdownNext]_vars

----------------------------------------------------------------------------
\* Vocabulary of the properties.

\* The handler of request r has ended: it returned, or an exception left it.
Ended(r) == pc[r] \in {"done", "raised"}

\* The handler of request r is between its lock acquisition and its end.
Inside(r) == pc[r] \notin {"idle", "acquire", "done", "raised"}

\* The name n has been appended to the registry at some time: by a spawn
\* whose create call succeeded and which is past line 134.  Its final name is
\* its local `name` until the reply and is carried by its reply afterwards.
FinalName(s) == IF replies[s] # <<>> THEN replies[s][1] ELSE name[s]
EverRegistered(n) ==
    \E s \in SpawnReqs :
        outcome[s] = "ok" /\ pc[s] # "append" /\ FinalName(s) = n

----------------------------------------------------------------------------
\* C1: in every reachable state, whatever the interleaving of spawn and kill
\* requests and the outcomes of the backend calls, no name occurs twice in
\* the registry.
C1_NoDuplicates ==
    \A i, j \in 1..Len(turtles) : i # j => turtles[i] # turtles[j]

\* A spawn was answered with a disambiguated name, a kill has removed a name
\* and the registry holds two names.
C1_Witness ==
    /\ Len(turtles) >= 2
    /\ \E k \in KillReqs : pc[k] = "done" /\ outcome[k] = "ok"
    /\ \E s \in SpawnReqs :
          replies[s] # <<>> /\ replies[s][1] \notin {"", msg_name[s]}

\* C2: a kill for a name that is not in the registry leaves the registry
\* unchanged and makes no call to the gateway flip service, whether the
\* destroy call succeeds or fails.  Stated for names that never were in the
\* registry: no step of such a kill changes the registry or issues a flip
\* request.
C2_UnknownKillNoFlip ==
    [][\A r \in KillReqs :
          (~EverRegistered(msg_name[r])' /\ pc'[r] # pc[r]) =>
              (turtles' = turtles /\ flip_calls'[r] = <<>>)]_vars

\* C3: whenever no kill handler is executing, the kill lock is free: every
\* way out of the kill handler releases the lock.
C3_KillLockReleased ==
    (\A r \in KillReqs : ~Inside(r)) => kill_lock = Free

\* C4: unless the node is shut down, every delivered spawn or kill request
\* eventually has exactly one reply sent with its own request id, and never
\* more than one.
C4_EveryRequestReplied ==
    /\ [](\A r \in Reqs : Len(replies[r]) <= 1)
    /\ \A r \in Reqs :
          (pc[r] = "acquire") ~> (interrupted \/ Len(replies[r]) = 1)

\* C5: a spawn whose create call failed does not change the registry, is
\* answered with the empty name and issues no flip request.
C5_FailedSpawnNoFlip ==
    [][\A s \in SpawnReqs :
          (outcome'[s] = "fail" /\ pc'[s] # pc[s]) =>
              /\ turtles' = turtles
              /\ replies'[s] \in {<<>>, <<"">>}
              /\ flip_calls'[s] = <<>>]_vars

\* C6: a kill whose destroy call failed issues no flip request, whatever
\* name it asked for.
C6_FailedKillNoFlip ==
    \A r \in KillReqs : outcome[r] = "fail" => flip_calls[r] = <<>>

\* C7: no step of a spawn or kill whose backend call failed with a
\* communication error, the failing return included, changes the registry.
C7_FailureKeepsRegistry ==
    [][\A r \in Reqs :
          (outcome'[r] = "fail" /\ pc'[r] # pc[r]) => turtles' = turtles]_vars

\* A kill of a registered name and a spawn both failed and have returned; the
\* name the kill asked for is still registered.
C7_Witness ==
    /\ \E k \in KillReqs :
          /\ outcome[k] = "fail" /\ pc[k] = "done"
          /\ Contains(turtles, msg_name[k])
    /\ \E s \in SpawnReqs : outcome[s] = "fail" /\ pc[s] = "done"

\* C8: a kill whose destroy call succeeded has, when its handler has ended,
\* issued exactly one flip request, with cancel = True, for the killed name.
C8_KilledThenCancelled ==
    \A r \in KillReqs :
        (outcome[r] = "ok" /\ Ended(r)) =>
            flip_calls[r] = <<FlipRequest(msg_name[r], TRUE)>>

\* C9: a spawn whose create call succeeded appends its disambiguated name to
\* the registry, replies with that name, then issues one flip request with
\* cancel = False for that name, and it eventually has done all of it.
C9_Sequence(s) ==
    /\ pc[s] \in {"append", "reply"} => replies[s] = <<>> /\ flip_calls[s] = <<>>
    /\ pc[s] = "flip" => replies[s] = <<name[s]>> /\ flip_calls[s] = <<>>
    /\ pc[s] \in {"flipwait", "release"} =>
          /\ replies[s] = <<name[s]>>
          /\ flip_calls[s] = <<FlipRequest(name[s], FALSE)>>
    /\ pc[s] = "done" =>
          /\ Len(replies[s]) = 1
          /\ flip_calls[s] = <<FlipRequest(replies[s][1], FALSE)>>

C9_Steps(s) ==
    /\ (pc[s] = "call" /\ pc'[s] = "append") =>
          \/ name[s] = msg_name[s]
          \/ \E c \in 0..Len(turtles) : name[s] = msg_name[s] \o Extension(c)
    /\ (pc[s] = "append" /\ pc'[s] = "reply") =>
          turtles' = Append(turtles, name[s])
    /\ (pc[s] \in {"append", "reply", "flip", "flipwait"} /\ pc'[s] # pc[s]) =>
          name'[s] = name[s]

C9_SpawnedThenFlipped ==
    /\ [](\A s \in SpawnReqs : outcome[s] = "ok" => C9_Sequence(s))
    /\ [][\A s \in SpawnReqs : C9_Steps(s)]_vars
    /\ \A s \in SpawnReqs : (outcome[s] = "ok") ~> (pc[s] = "done")

\* A spawn whose name had to be disambiguated has succeeded and returned.
C9_Witness ==
    \E s \in SpawnReqs :
        /\ outcome[s] = "ok" /\ pc[s] = "done"
        /\ replies[s] # <<msg_name[s]>>
        /\ Contains(turtles, replies[s][1])

\* C10: while every spawn request delivered so far asked for the same name n
\* and no kill request has been delivered, the registry holds n, n_0, n_1, ...
\* in that order, and the k-th spawn served with success is answered with the
\* k-th of these names.  A spawn replies holding the spawn lock, right after
\* its append, so the length of the registry is then its rank.
NthName(n, k) == IF k = 1 THEN n ELSE n \o "_" \o ToString(k - 2)

SameNameNoKill(n) ==
    /\ \A k \in KillReqs : pc[k] = "idle"
    /\ \A s \in SpawnReqs : pc[s] # "idle" => msg_name[s] = n

C10_Names ==
    [][\A n \in SpawnNames :
          SameNameNoKill(n)' =>
              /\ \A i \in 1..Len(turtles') : turtles'[i] = NthName(n, i)
              /\ \A s \in SpawnReqs :
                    (outcome[s] = "ok" /\ replies'[s] # replies[s]) =>
                        replies'[s] = <<NthName(n, Len(turtles))>>]_vars

\* Three spawns of "x" have succeeded and been answered; the third name
\* needed two passes of the loop.
C10_Witness ==
    /\ SameNameNoKill("x")
    /\ Len(turtles) >= 3
    /\ \E s \in SpawnReqs : replies[s] = <<"x_1">>
    /\ \A s \in SpawnReqs : pc[s] \in {"idle", "done"}

\* C11: spawn requests for one requested name that are handled by
\* concurrent worker threads, with successful create calls and no kill, are
\* answered with pairwise distinct names.
C11_ConcurrentSpawnsDistinct ==
    (\A k \in KillReqs : pc[k] = "idle") =>
        \A s, t \in SpawnReqs :
            (/\ s # t
             /\ msg_name[s] = msg_name[t]
             /\ outcome[s] = "ok" /\ replies[s] # <<>>
             /\ outcome[t] = "ok" /\ replies[t] # <<>>) =>
                replies[s] # replies[t]

\* Three worker threads run at once on requests for "x": one has been
\* answered, one is answered and still holds the lock, one waits for it.
C11_Witness ==
    /\ \A k \in KillReqs : pc[k] = "idle"
    /\ \E s, t, u \in SpawnReqs :
          /\ msg_name[s] = "x" /\ msg_name[t] = "x" /\ msg_name[u] = "x"
          /\ outcome[s] = "ok" /\ pc[s] = "done"
          /\ outcome[t] = "ok" /\ pc[t] = "flipwait"
          /\ pc[u] = "acquire"

\* C12: at most one spawn handler and at most one kill handler is inside its
\* locked section, and the one that is holds the lock of its kind.
C12_OnePerKind ==
    /\ \A s \in SpawnReqs : Inside(s) => spawn_lock = s
    /\ \A k \in KillReqs : Inside(k) => kill_lock = k
    /\ Cardinality({s \in SpawnReqs : Inside(s)}) <= 1
    /\ Cardinality({k \in KillReqs : Inside(k)}) <= 1

\* A spawn and a kill are inside their locked sections at the same time,
\* each with a second request of its kind waiting for the lock.
C12_Witness ==
    /\ \E s, t \in SpawnReqs : Inside(s) /\ pc[t] = "acquire"
    /\ \E k, l \in KillReqs : Inside(k) /\ pc[l] = "acquire"

\* C13: whenever no spawn handler is executing, the spawn lock is free, and
\* no ended spawn handler holds it: every way out of the spawn handler
\* releases the lock.
C13_SpawnLockReleased ==
    /\ (\A s \in SpawnReqs : ~Inside(s)) => spawn_lock = Free
    /\ \A s \in SpawnReqs : Ended(s) => spawn_lock # s

\* Spawn handlers have ended after a successful create call, after a failed
\* one and after an interrupted one.
C13_Witness ==
    /\ \E s \in SpawnReqs : Ended(s) /\ outcome[s] = "ok"
    /\ \E s \in SpawnReqs : Ended(s) /\ outcome[s] = "fail"
    /\ \E s \in SpawnReqs : Ended(s) /\ outcome[s] = "interrupt"

\* C14: shutdown() issues its destroy calls for names of the registry in
\* insertion order, one call per name, issues none after a call that failed,
\* and, when no call failed, has issued one for every name that was in the
\* registry when it began.
Position(list, x) == CHOOSE i \in 1..Len(list) : list[i] = x

C14_Calls(calls, start) ==
    /\ \A i, j \in 1..Len(calls) : i # j => calls[i] # calls[j]
    /\ \A i, j \in 1..Len(calls) :
          (i < j /\ Contains(start, calls[i]) /\ Contains(start, calls[j])) =>
              Position(start, calls[i]) < Position(start, calls[j])

C14_ShutdownDestroysAll ==
    [][/\ C14_Calls(sd_calls', sd_start')
       /\ sd_pc \in {"failed", "interrupted"} => sd_calls' = sd_calls
       /\ sd_pc' = "exhausted" => Range(sd_start') \subseteq Range(sd_calls')]_vars

\* C15: whenever no spawn or kill is in flight (every delivered request has
\* ended), the registry holds exactly the names this node has created on the
\* backend and not destroyed since.
NoneInFlight == \A r \in Reqs : pc[r] = "idle" \/ Ended(r)

C15_RegistryMirrorsBackend ==
    NoneInFlight => Range(turtles) = backend

\* C16: the registry changes only by a spawn appending, after its create call
\* has succeeded, the name that call was made for, or by a kill removing,
\* after its destroy call has succeeded, the name that call was made for.
\* The create call is made for the handler's `name` as the loop left it,
\* the destroy call for msg.name.
C16_Append(s) ==
    /\ pc[s] = "append" /\ pc'[s] = "reply"
    /\ outcome[s] = "ok"
    /\ name[s] \in backend \/ \E k \in KillReqs : msg_name[k] = name[s] /\ outcome[k] = "ok"
    /\ turtles' = Append(turtles, name[s])

C16_Remove(k) ==
    /\ pc[k] = "remove" /\ pc'[k] = "reply"
    /\ outcome[k] = "ok"
    /\ turtles' = Remove(turtles, msg_name[k])

C16_MutationAfterConfirmation ==
    [][/\ turtles' # turtles =>
            \/ \E s \in SpawnReqs : C16_Append(s)
            \/ \E k \in KillReqs : C16_Remove(k)
       /\ \A s \in SpawnReqs :
            (pc[s] = "call" /\ outcome'[s] = "ok") => name'[s] = name[s]]_vars

\* A spawn has registered its name and returned, and a kill has removed a
\* name and returned.
C16_Witness ==
    /\ \E s \in SpawnReqs :
          /\ outcome[s] = "ok" /\ pc[s] = "done"
          /\ Contains(turtles, replies[s][1])
    /\ \E k \in KillReqs :
          /\ outcome[k] = "ok" /\ pc[k] = "done"
          /\ ~Contains(turtles, msg_name[k])

\* C17: every thread that is about to read or write the registry holds the
\* lock guarding it, in spawn, kill and shutdown(), and no thread is about to
\* write it while another thread is about to read or write it.  The spawn
\* handler reads in the loop condition (line 122) and writes in the append
\* (line 134), the kill handler writes in the remove (line 99), shutdown()
\* reads in each step of its iterator (line 177).
MainThread == MaxSpawn + MaxKill + 1

RegistryReaders ==
    {s \in SpawnReqs : pc[s] = "loop"} \cup
    (IF sd_pc = "iter" THEN {MainThread} ELSE {})

RegistryWriters ==
    {s \in SpawnReqs : pc[s] = "append"} \cup {k \in KillReqs : pc[k] = "remove"}

C17_RegistryUnderLock ==
    /\ \A t \in RegistryReaders \cup RegistryWriters :
          t \in {spawn_lock, kill_lock}
    /\ \A w \in RegistryWriters :
          RegistryReaders \cup RegistryWriters = {w}

\* C18: in a spawn or kill that is not cancelled, the backend call returns,
\* then the registry is changed, then the reply is sent, then the flip request
\* is issued, then the lock is released, all of it under the lock; and no
\* request starts its backend call while another request of its kind is
\* between the start of its backend call and the return of its flip request.
LockOf(r) == IF r \in SpawnReqs THEN spawn_lock ELSE kill_lock

SameKind(r) == IF r \in SpawnReqs THEN SpawnReqs ELSE KillReqs

C18_Order(r) ==
    /\ outcome'[r] # outcome[r] =>
          LockOf(r) = r /\ replies[r] = <<>> /\ flip_calls[r] = <<>>
    /\ (turtles' # turtles /\ pc'[r] # pc[r]) =>
          /\ outcome[r] = "ok" /\ LockOf(r) = r
          /\ replies[r] = <<>> /\ flip_calls[r] = <<>>
    /\ replies'[r] # replies[r] =>
          /\ outcome[r] \in {"ok", "fail"} /\ LockOf(r) = r /\ LockOf(r)' = r
          /\ pc[r] \notin {"append", "remove"}
          /\ flip_calls[r] = <<>>
    /\ flip_calls'[r] # flip_calls[r] =>
          replies[r] # <<>> /\ LockOf(r) = r /\ LockOf(r)' = r
    /\ (LockOf(r) = r /\ LockOf(r)' # r /\ outcome'[r] # "interrupt") =>
          replies[r] # <<>> /\ flip_calls[r] # <<>> /\ pc[r] = "release"
    /\ (pc'[r] = "call" /\ pc[r] # "call") =>
          \A q \in SameKind(r) \ {r} :
              pc[q] \notin {"loop", "call", "append", "remove", "reply",
                            "flip", "flipwait"}

C18_StepOrder == [][\A r \in Reqs : C18_Order(r)]_vars

\* A kill went through all its steps and returned, the next kill is in its
\* backend call, and a spawn that has replied waits for its flip request to
\* return while another spawn waits for the lock.
C18_Witness ==
    /\ \E k, l \in KillReqs :
          /\ pc[k] = "done" /\ outcome[k] = "ok" /\ flip_calls[k] # <<>>
          /\ pc[l] = "call"
    /\ \E s, t \in SpawnReqs :
          /\ pc[s] = "flipwait" /\ outcome[s] = "ok" /\ replies[s] # <<>>
          /\ pc[t] = "acquire"

\* C19: a spawn or kill whose backend call is interrupted by the shutdown of
\* the process releases its lock and returns: it has sent and sends no reply,
\* has made and makes no flip request, and leaves the registry as it was.
C19_Abandon(r) ==
    outcome'[r] = "interrupt" =>
        /\ pc'[r] = "done"
        /\ replies'[r] = <<>>
        /\ flip_calls'[r] = <<>>
        /\ LockOf(r)' # r
        /\ outcome[r] # "interrupt" =>
              /\ interrupted /\ pc[r] = "call"
              /\ LockOf(r) = r /\ LockOf(r)' = Free
              /\ turtles' = turtles

C19_InterruptAbandons == [][\A r \in Reqs : C19_Abandon(r)]_vars

\* A spawn and a kill were both interrupted in their backend calls while the
\* registry held a turtle, and both locks are free again.
C19_Witness ==
    /\ \E s \in SpawnReqs : outcome[s] = "interrupt" /\ pc[s] = "done"
    /\ \E k \in KillReqs : outcome[k] = "interrupt" /\ pc[k] = "done"
    /\ turtles # <<>>
    /\ spawn_lock = Free /\ kill_lock = Free

\* C20: the name a spawn passes to the backend is the requested name when
\* the registry does not hold it, and otherwise the requested name followed by
\* "_k" for the least k >= 0 such that the registry does not hold that name.
RECURSIVE LeastFree(_, _, _)
LeastFree(r, registry, k) ==
    IF Contains(registry, r \o Extension(k))
    THEN LeastFree(r, registry, k + 1)
    ELSE k

Disambiguated(r, registry) ==
    IF Contains(registry, r)
    THEN r \o Extension(LeastFree(r, registry, 0))
    ELSE r

C20_LeastFreeName ==
    [][\A s \in SpawnReqs :
          (pc[s] = "loop" /\ pc'[s] = "call") =>
              name'[s] = Disambiguated(msg_name[s], turtles)]_vars

====
